---- MODULE Spec2Model ----
(***************************************************************************)
(* Model of the campaign-finance scraper: the scrape command's run loop    *)
(* (src/commands/scrape.ts), the page processor, the per-document fetch    *)
(* pipeline and the SQLite store (src/lib/scraper.ts).                      *)
(*                                                                         *)
(* Text is a sequence of one-character strings.  A value that the code     *)
(* types `string | null` is a record [null, s].  A Buffer is represented   *)
(* by its length, its first bytes (at most four, all isValidPdf reads) and *)
(* a tag standing for the remaining bytes.                                 *)
(***************************************************************************)
EXTENDS Integers, Sequences, FiniteSets, TLC

\* ------------------------------------------------------------------ bounds
MaxPages == 2      \* largest number of pages of the result grid
MaxRows  == 2      \* largest number of rows on one grid page
MaxTotal == 3      \* largest totalPages the pagination summary may report
MaxSaves == 3      \* savePdfToDb calls issued by the store harness

\* ------------------------------------------------------------------ text
Null    == [null |-> TRUE,  s |-> <<>>]
Text(s) == [null |-> FALSE, s |-> s]

Whitespace == {" ", "\t", "\n"}

RECURSIVE TrimStart(_)
TrimStart(s) ==
  IF s # <<>> /\ Head(s) \in Whitespace THEN TrimStart(Tail(s)) ELSE s

RECURSIVE TrimEnd(_)
TrimEnd(s) ==
  IF s # <<>> /\ s[Len(s)] \in Whitespace
  THEN TrimEnd(SubSeq(s, 1, Len(s) - 1)) ELSE s

\* String.prototype.trim
Trim(s) == TrimEnd(TrimStart(s))

\* String.prototype.split with a one-character separator
RECURSIVE Split(_, _)
Split(s, sep) ==
  IF \A k \in 1..Len(s) : s[k] # sep
  THEN << s >>
  ELSE LET k == CHOOSE j \in 1..Len(s) :
                  s[j] = sep /\ \A m \in 1..(j - 1) : s[m] # sep
       IN  << SubSeq(s, 1, k - 1) >> \o Split(SubSeq(s, k + 1, Len(s)), sep)

\* no padding
PadStart_Never(s, n, c) == s

\* String.prototype.padStart with a one-character filler
PadStart(s, n, c) ==
  IF Len(s) >= n THEN s ELSE [k \in 1..(n - Len(s)) |-> c] \o s

Undefined == << "u","n","d","e","f","i","n","e","d" >>
DotPdf    == << ".","p","d","f" >>

\* ------------------------------------------------------------------ parser
\* a test for null alone
Falsy_NullOnly(t) == t.null

\* `!text` of a `string | null`: null or the empty string
Falsy(t) == t.null \/ t.s = <<>>

\* the text as it is
TrimOrEmpty_Raw(t) == t.s

\* `text?.trim() || ''`
TrimOrEmpty(t) == IF t.null THEN <<>> ELSE Trim(t.s)

\* extractFilingRecord: tag "null" (absence), "throw" (TypeError: padStart of
\* undefined) or "record".
extractFilingRecord(formTypeText, filingDateText, filerNameText, candidateLastNameText, candidateFirstNameText, candidateMiddleNameText) ==
  IF Falsy(filingDateText) \/ Falsy(formTypeText)
  THEN [tag |-> "null"]
  ELSE LET filingDateRaw == Trim(filingDateText.s)
           parts == Split(filingDateRaw, "/")
           month == parts[1]
           year  == IF Len(parts) >= 3 THEN parts[3] ELSE Undefined
       IN  IF Len(parts) < 2
           THEN [tag |-> "throw"]
           ELSE [tag |-> "record",
                 rec |-> [formType   |-> Trim(formTypeText.s),
                          filingDate |-> year \o << "-" >>
                                          \o PadStart(month, 2, "0")
                                          \o << "-" >>
                                          \o PadStart(parts[2], 2, "0"),
                          filerName  |-> TrimOrEmpty(filerNameText),
                          candidateLastName   |-> TrimOrEmpty(candidateLastNameText),
                          candidateFirstName  |-> TrimOrEmpty(candidateFirstNameText),
                          candidateMiddleName |-> TrimOrEmpty(candidateMiddleNameText)]]

\* the day is written first
convertDateFormat_DayFirst(isoDate) ==
  LET parts == Split(isoDate, "-")
  IN  parts[3] \o << "/" >> \o parts[2] \o << "/" >> \o parts[1]

\* convertDateFormat: const [year, month, day] = isoDate.split('-');
\* `${month}/${day}/${year}`
convertDateFormat(isoDate) ==
  LET parts == Split(isoDate, "-")
      year  == parts[1]
      month == IF Len(parts) >= 2 THEN parts[2] ELSE Undefined
      day   == IF Len(parts) >= 3 THEN parts[3] ELSE Undefined
  IN  month \o << "/" >> \o day \o << "/" >> \o year

\* ------------------------------------------------------------------ validator
PdfMagic == << 37, 80, 68, 70 >>      \* 0x25 0x50 0x44 0x46
MinPdfLength == 100

\* buffer[k] (0-based); -1 stands for `undefined` past the end of the buffer
ByteAt(buffer, k) == IF k < Len(buffer.head) THEN buffer.head[k + 1] ELSE -1

\* a buffer of exactly MinPdfLength bytes passes
isValidPdf_AtLeast(buffer) ==
  /\ buffer.len >= MinPdfLength
  /\ buffer.head = PdfMagic

isValidPdf(buffer) ==
  /\ buffer.len > MinPdfLength
  /\ ByteAt(buffer, 0) = PdfMagic[1]
  /\ ByteAt(buffer, 1) = PdfMagic[2]
  /\ ByteAt(buffer, 2) = PdfMagic[3]
  /\ ByteAt(buffer, 3) = PdfMagic[4]

\* ------------------------------------------------------------------ credential
HandlerName ==
  << "P", "d", "f", "H", "a", "n", "d", "l", "e", "r", ".", "a", "x", "d" >>
KeyParam == << "?", "k", "e", "y", "=" >>
KeyLength == 32
HexLower == {"0", "1", "2", "3", "4", "5", "6", "7", "8", "9",
             "a", "b", "c", "d", "e", "f"}

\* the text w occurs in s at position k
OccursAt(s, k, w) ==
  /\ k >= 1
  /\ k + Len(w) - 1 <= Len(s)
  /\ SubSeq(s, k, k + Len(w) - 1) = w

\* any characters between the handler name and '?key='
KeyMatch_AnyPath(s, k, q) ==
  /\ OccursAt(s, k, HandlerName)
  /\ q >= k + Len(HandlerName)
  /\ OccursAt(s, q, KeyParam)
  /\ q + Len(KeyParam) + KeyLength - 1 <= Len(s)
  /\ \A m \in (q + Len(KeyParam))..(q + Len(KeyParam) + KeyLength - 1) :
        s[m] \in HexLower

\* /PdfHandler\.axd[^?]*\?key=([a-f0-9]{32})/ matches s from position k with
\* the '?' at position q
KeyMatch(s, k, q) ==
  /\ OccursAt(s, k, HandlerName)
  /\ q >= k + Len(HandlerName)
  /\ \A m \in (k + Len(HandlerName))..(q - 1) : s[m] # "?"
  /\ OccursAt(s, q, KeyParam)
  /\ q + Len(KeyParam) + KeyLength - 1 <= Len(s)
  /\ \A m \in (q + Len(KeyParam))..(q + Len(KeyParam) + KeyLength - 1) :
        s[m] \in HexLower

\* extractSessionKey: the first capture group of the leftmost match, or null
extractSessionKey(pdfUrl) ==
  LET starts == {k \in 1..Len(pdfUrl) :
                   \E q \in 1..Len(pdfUrl) : KeyMatch(pdfUrl, k, q)}
  IN  IF starts = {}
      THEN Null
      ELSE LET k == CHOOSE a \in starts : \A b \in starts : a <= b
               q == CHOOSE c \in 1..Len(pdfUrl) : KeyMatch(pdfUrl, k, c)
           IN  Text(SubSeq(pdfUrl, q + Len(KeyParam),
                           q + Len(KeyParam) + KeyLength - 1))

DownloadBase ==
  << "h", "t", "t", "p", "s", ":", "/", "/", "w", "w", "w", ".", "s", "o", "u", "t",
     "h", "t", "e", "c", "h", "h", "o", "s", "t", "i", "n", "g", ".", "c", "o", "m",
     "/", "W", "h", "i", "t", "t", "i", "e", "r", "C", "i", "t", "y", "/", "C", "a",
     "m", "p", "a", "i", "g", "n", "D", "o", "c", "s", "W", "e", "b", "R", "e", "t",
     "r", "i", "e", "v", "a", "l", "/", "P", "d", "f", "H", "a", "n", "d", "l", "e",
     "r", ".", "a", "x", "d", "?", "k", "e", "y", "=" >>
DownloadSuffix ==
  << "P", "d", "f", "D", "o", "w", "n", "l", "o", "a", "d", "S", "e", "s", "s", "i",
     "o", "n", "K", "e", "y", "&", "d", "o", "w", "n", "l", "o", "a", "d", "=", "T",
     "r", "u", "e", "&", "f", "i", "l", "e", "N", "a", "m", "e", "=", "F", "o", "r",
     "m" >>

\* the key without the marker and the download query
buildDownloadUrl_KeyOnly(key) == DownloadBase \o key

buildDownloadUrl(key) == DownloadBase \o key \o DownloadSuffix

\* ------------------------------------------------------------------ store
\* filings: rows of the metadata table (created_at is a timestamp default and
\* is left out); filing_pdfs: rows [filing_id, pdf_blob], filing_id the
\* primary key; sqlite_sequence: the AUTOINCREMENT counter of filings.
NaturalKey(row) ==
  << row.form_type, row.filing_date, row.filer_name,
     row.candidate_last_name, row.candidate_first_name >>

RecordKey(rec) ==
  << rec.formType, rec.filingDate, rec.filerName,
     rec.candidateLastName, rec.candidateFirstName >>

FileName(rec) ==
  rec.filingDate \o << "." >> \o rec.filerName \o << "." >> \o rec.formType
    \o DotPdf

\* INSERT OR REPLACE INTO filings ... RETURNING id: the conflicting row is
\* deleted and a new one inserted
UpsertFiling_Replace(table, seq, rec) ==
  [table |-> {row \in table : NaturalKey(row) # RecordKey(rec)} \cup
               {[id                    |-> seq + 1,
                 form_type             |-> rec.formType,
                 filing_date           |-> rec.filingDate,
                 filer_name            |-> rec.filerName,
                 candidate_last_name   |-> rec.candidateLastName,
                 candidate_first_name  |-> rec.candidateFirstName,
                 candidate_middle_name |-> rec.candidateMiddleName,
                 file_name             |-> FileName(rec)]},
   seq   |-> seq + 1,
   id    |-> seq + 1]

\* INSERT INTO filings ... ON CONFLICT(natural key) DO UPDATE SET file_name
\* ... RETURNING id
UpsertFiling(table, seq, rec) ==
  LET hit == {row \in table : NaturalKey(row) = RecordKey(rec)}
  IN  IF hit # {}
      THEN LET old == CHOOSE row \in hit : TRUE
           IN  [table |-> (table \ {old})
                            \cup {[old EXCEPT !.file_name = FileName(rec)]},
                seq   |-> seq,
                id    |-> old.id]
      ELSE [table |-> table \cup
                        {[id                    |-> seq + 1,
                          form_type             |-> rec.formType,
                          filing_date           |-> rec.filingDate,
                          filer_name            |-> rec.filerName,
                          candidate_last_name   |-> rec.candidateLastName,
                          candidate_first_name  |-> rec.candidateFirstName,
                          candidate_middle_name |-> rec.candidateMiddleName,
                          file_name             |-> FileName(rec)]},
            seq   |-> seq + 1,
            id    |-> seq + 1]

\* INSERT OR REPLACE INTO filing_pdfs (filing_id, pdf_blob)
ReplaceBlob(table, id, blob) ==
  {row \in table : row.filing_id # id}
    \cup {[filing_id |-> id, pdf_blob |-> blob]}

\* ------------------------------------------------------------------ inputs
E == Text(<< >>)                       \* an empty cell

\* the <td> texts of a grid row, left to right, and whether the row has the
\* a[id*="DXCBtn"] document link
RowSantana ==
  [cells |-> << Text(<< "4", "1", "0" >>),
                Text(<< "6", "/", "3", "0", "/", "2", "0", "2", "5" >>),
                Text(<< "S", "a", "n", "t", "a", "n", "a" >>), E, E, E >>,
   hasLink |-> TRUE]
RowLee ==
  [cells |-> << Text(<< " ", "4", "6", "0" >>),
                Text(<< "7", "/", "2", "9", "/", "2", "0", "2", "5" >>),
                Text(<< "L", "e", "e" >>), E, E, E >>,
   hasLink |-> TRUE]
RowNoDate   == [RowSantana EXCEPT !.cells[2] = E]
RowBadDate  == [RowLee EXCEPT !.cells[2] = Text(<< "2", "0", "2", "5" >>)]
RowNoLink   == [RowSantana EXCEPT !.hasLink = FALSE]
RowTwoCells == [cells |-> << Text(<< "4", "1", "0" >>), E >>, hasLink |-> FALSE]

RowInputs == {RowSantana, RowLee, RowNoDate, RowBadDate, RowNoLink, RowTwoCells}

ColumnCount == 6

\* the polls, one second apart, of the bounded wait for the viewer frame
PollCount == 5

KeyA ==
  << "d", "3", "7", "d", "2", "7", "8", "c", "f", "1", "1", "4", "4", "8", "e", "1",
     "a", "f", "a", "2", "0", "2", "8", "e", "4", "3", "7", "6", "0", "d", "1", "f" >>
KeyB ==
  << "0", "1", "2", "3", "4", "5", "6", "7", "8", "9", "a", "b", "c", "d", "e", "f",
     "0", "1", "2", "3", "4", "5", "6", "7", "8", "9", "a", "b", "c", "d", "e", "f" >>

\* values of the data attribute of the viewer's <object>
ViewerUrl(key) ==
  HandlerName \o << "/", "F", "o", "r", "m" >> \o KeyParam \o key
    \o << "&", "f", "i", "l", "e", "n", "a", "m", "e", "=", "F", "o", "r", "m" >>
UrlNoKey == << "a", "b", "o", "u", "t", ":", "b", "l", "a", "n", "k" >>
PdfUrls == {ViewerUrl(KeyA), ViewerUrl(KeyB), UrlNoKey}
SessionKeyOf == [u \in PdfUrls |-> extractSessionKey(u)]

\* responses of the in-browser fetch
PdfA     == [len |-> 101, head |-> PdfMagic, rest |-> "a"]
PdfB     == [len |-> 101, head |-> PdfMagic, rest |-> "b"]
ShortPdf == [len |-> 100, head |-> PdfMagic, rest |-> "a"]
Html     == [len |-> 21,  head |-> << 60, 33, 100, 111 >>, rest |-> "h"]
BigHtml  == [len |-> 500, head |-> << 60, 33, 100, 111 >>, rest |-> "h"]
Buffers  == {PdfA, PdfB, ShortPdf, Html, BigHtml}
\* responses of the portal during a run
Responses == {PdfA, ShortPdf, Html, BigHtml}
NoBuffer == [len |-> 0, head |-> << >>, rest |-> ""]

Parse(row) ==
  extractFilingRecord(row.cells[1], row.cells[2], row.cells[3],
                      row.cells[4], row.cells[5], row.cells[6])

\* the parse of each row and the key of each viewer URL, computed once
ParsedRow == [row \in RowInputs |-> Parse(row)]

NoRecord ==
  [formType |-> << >>, filingDate |-> << >>, filerName |-> << >>,
   candidateLastName |-> << >>, candidateFirstName |-> << >>,
   candidateMiddleName |-> << >>]

\* records handed to savePdfToDb by the store harness
HarnessRecords ==
  LET a == Parse(RowSantana).rec
      b == Parse(RowLee).rec
  IN  {a, b, [a EXCEPT !.candidateMiddleName = << "Q" >>]}

\* result grids: grid[p] is the number of rows of page p
Grids == UNION {[1..n -> 1..MaxRows] : n \in 1..MaxPages}

\* ------------------------------------------------------------------ pager
Digits == << "0", "1", "2", "3", "4", "5", "6", "7", "8", "9" >>

IsDigit(c) == \E d \in 1..10 : Digits[d] = c

DigitValue(c) == (CHOOSE d \in 1..10 : Digits[d] = c) - 1

\* parseInt(text, 10) of a text made of decimal digits
RECURSIVE ParseInt(_)
ParseInt(s) ==
  IF s = << >> THEN 0
  ELSE 10 * ParseInt(SubSeq(s, 1, Len(s) - 1)) + DigitValue(s[Len(s)])

\* the decimal text the portal shows for a number
RECURSIVE ToText(_)
ToText(n) ==
  IF n < 10 THEN << Digits[n + 1] >>
  ELSE ToText(n \div 10) \o << Digits[(n % 10) + 1] >>

\* the end of the longest run of digits of s that starts at position k
\* (k - 1 when s[k] is not a digit): what a greedy \d+ consumes
RECURSIVE DigitsEnd(_, _)
DigitsEnd(s, k) ==
  IF k <= Len(s) /\ IsDigit(s[k]) THEN DigitsEnd(s, k + 1) ELSE k - 1

\* ------------------------------------------------------------------ parser, pattern variant
Uppercase ==
  << "A", "B", "C", "D", "E", "F", "G", "H", "I", "J", "K", "L", "M",
     "N", "O", "P", "Q", "R", "S", "T", "U", "V", "W", "X", "Y", "Z" >>

IsUpper(c) == \E k \in 1..26 : Uppercase[k] = c

Unknown == << "u", "n", "k", "n", "o", "w", "n" >>

\* s.match(/^(\d+(-[A-Z])?)/)?.[1]: the leading digits (greedy) and, when a
\* dash and an upper-case letter follow them, these two; << >> stands for
\* undefined (no match)
FormTypeMatch(s) ==
  LET e == DigitsEnd(s, 1)
  IN  IF e = 0 THEN << >>
      ELSE IF e + 2 <= Len(s) /\ s[e + 1] = "-" /\ IsUpper(s[e + 2])
           THEN SubSeq(s, 1, e + 2)
           ELSE SubSeq(s, 1, e)

\* the leading digits alone
FormTypeCode_DigitsOnly(s) ==
  IF DigitsEnd(s, 1) = 0 THEN Unknown ELSE SubSeq(s, 1, DigitsEnd(s, 1))

\* formTypeText.trim().match(/^(\d+(-[A-Z])?)/)?.[1] || 'unknown'
FormTypeCode(s) ==
  IF FormTypeMatch(s) = << >> THEN Unknown ELSE FormTypeMatch(s)

\* extractFilingRecord of src/scrape.test.ts and src/unnamed/part_000 (three
\* cells, the form type taken by a pattern): tag "null", "throw" or "record"
extractFilingRecordPattern(formTypeText, filingDateText, candidateLastName) ==
  IF Falsy(filingDateText) \/ Falsy(candidateLastName) \/ Falsy(formTypeText)
  THEN [tag |-> "null"]
  ELSE LET filingDate == Trim(filingDateText.s)
           parts == Split(filingDate, "/")
           month == parts[1]
           year  == IF Len(parts) >= 3 THEN parts[3] ELSE Undefined
       IN  IF Len(parts) < 2
           THEN [tag |-> "throw"]
           ELSE [tag |-> "record",
                 rec |-> [formType      |-> FormTypeCode(Trim(formTypeText.s)),
                          filingDate    |-> filingDate,
                          formattedDate |-> year \o << "-" >>
                                             \o PadStart(month, 2, "0")
                                             \o << "-" >>
                                             \o PadStart(parts[2], 2, "0"),
                          filerName     |-> Trim(candidateLastName.s)]]

LitPage  == << "P", "a", "g", "e", " " >>
LitOf    == << " ", "o", "f", " " >>
LitOpen  == << " ", "(" >>
LitItems == << " ", "i", "t", "e", "m", "s", ")" >>

\* /Page (\d+) of (\d+) \((\d+) items\)/ tried at position k of s: the three
\* captured groups, or << >> when the pattern does not match there.  Every
\* \d+ is followed by a literal that starts with a non-digit, so only the
\* longest run of digits can match.
PagerMatchAt(s, k) ==
  LET x1 == k + Len(LitPage)
      x2 == DigitsEnd(s, x1)
      y1 == x2 + 1 + Len(LitOf)
      y2 == DigitsEnd(s, y1)
      z1 == y2 + 1 + Len(LitOpen)
      z2 == DigitsEnd(s, z1)
  IN  IF /\ OccursAt(s, k, LitPage)    /\ x2 >= x1
         /\ OccursAt(s, x2 + 1, LitOf)   /\ y2 >= y1
         /\ OccursAt(s, y2 + 1, LitOpen) /\ z2 >= z1
         /\ OccursAt(s, z2 + 1, LitItems)
      THEN << SubSeq(s, x1, x2), SubSeq(s, y1, y2), SubSeq(s, z1, z2) >>
      ELSE << >>

\* pagerText.match(...): the groups of the leftmost match, or << >>
PagerMatch(s) ==
  LET hits == {k \in 1..Len(s) : PagerMatchAt(s, k) # << >>}
  IN  IF hits = {} THEN << >>
      ELSE PagerMatchAt(s, CHOOSE k \in hits : \A j \in hits : k <= j)

\* `return null` of getPaginationInfo
NoPaginationInfo ==
  [found |-> FALSE, currentPage |-> 0, totalPages |-> 0, totalItems |-> 0]

\* what locator('b.dxp-lead.dxp-summary').textContent({timeout: 5000}) does:
\* it rejects (no such element within the timeout, page closed) or it
\* returns a `string | null`
ReadThrows == [thrown |-> TRUE, text |-> Null]
ReadGives(t) == [thrown |-> FALSE, text |-> t]

\* getPaginationInfo, as a function of what the read of the summary gave
getPaginationInfo(read) ==
  IF read.thrown THEN NoPaginationInfo
  ELSE IF Falsy(read.text) THEN NoPaginationInfo
  ELSE LET match == PagerMatch(read.text.s)
       IN  IF match = << >> THEN NoPaginationInfo
           ELSE [found       |-> TRUE,
                 currentPage |-> ParseInt(match[1]),
                 totalPages  |-> ParseInt(match[2]),
                 totalItems  |-> ParseInt(match[3])]

\* the summary the grid pager shows: "Page x of y (z items)"
PagerText(x, y, z) ==
  LitPage \o ToText(x) \o LitOf \o ToText(y) \o LitOpen \o ToText(z)
    \o LitItems

NoDataText ==
  << "N", "o", " ", "d", "a", "t", "a", " ", "t", "o", " ",
     "d", "i", "s", "p", "l", "a", "y" >>

\* reads of the pagination summary: the read rejects, gives null, or gives
\* a text built around the numbers x, y and z
PagerKinds ==
  {"thrown", "null", "empty", "nodata", "summary", "embedded", "lowercase",
   "nodigits", "nototal", "oneitem"}
PagerArgs ==
  [fn : {"getPaginationInfo"}, kind : PagerKinds, x : {1, 2, 10},
   y : {0, 1, 5, 12}, z : {0, 46, 100}]

PagerReadOf(a) ==
  CASE a.kind = "thrown"  -> ReadThrows
    [] a.kind = "null"    -> ReadGives(Null)
    [] a.kind = "empty"   -> ReadGives(E)
    [] a.kind = "nodata"  -> ReadGives(Text(NoDataText))
    [] a.kind = "summary" -> ReadGives(Text(PagerText(a.x, a.y, a.z)))
    [] a.kind = "embedded" ->
         ReadGives(Text(<< "\n", " " >> \o PagerText(a.x, a.y, a.z)
                          \o << " ", "1", "2" >>))
    [] a.kind = "lowercase" ->
         ReadGives(Text(<< "p" >> \o Tail(PagerText(a.x, a.y, a.z))))
    [] a.kind = "nodigits" ->
         ReadGives(Text(LitPage \o LitOf \o ToText(a.y) \o LitOpen
                          \o ToText(a.z) \o LitItems))
    [] a.kind = "nototal" ->
         ReadGives(Text(LitPage \o ToText(a.x) \o LitOf \o ToText(a.y)))
    [] a.kind = "oneitem" ->
         ReadGives(Text(LitPage \o ToText(a.x) \o LitOf \o ToText(a.y)
                          \o LitOpen \o ToText(a.z)
                          \o << " ", "i", "t", "e", "m", ")" >>))

\* the reads of the summary on the first page of a run
RunPagerArgs ==
  [fn : {"getPaginationInfo"}, kind : PagerKinds, x : {1, 12},
   y : 0..MaxTotal, z : {0, 46}]

\* no pure function is applied alone
NoArg    == [fn |-> "none"]
NoReturn == [tag |-> "none"]

\* ------------------------------------------------------------------ state
VARIABLES
  pc,                  \* position of the single flow of control
  caller,              \* "run" (scrapeCommand) or "harness" (store alone)
  options,             \* parsed CLI options [output, debug]
  filings,             \* table filings
  filing_pdfs,         \* table filing_pdfs
  sqlite_sequence,     \* AUTOINCREMENT counter of filings
  db,                  \* "unset", "null" (dry run) or "open"
  totalPages,          \* scrapeCommand: totalPages
  currentPage,         \* scrapeCommand: currentPage
  downloadCount,       \* scrapeCommand: downloadCount
  rows,                \* processCurrentPage: rows.length
  i,                   \* processCurrentPage: loop index (1-based)
  pageDownloadCount,   \* processCurrentPage: pageDownloadCount
  record,              \* processFilingRecord / savePdfToDb: record
  pdfUrl,              \* processFilingRecord: pdfUrl
  key,                 \* processFilingRecord: key
  buffer,              \* processFilingRecord / savePdfToDb: buffer
  branch,              \* processFilingRecord: which dismiss site is next
  filingId,            \* savePdfToDb: filingId
  grid,                \* the portal's result grid
  gridPage,            \* the page the grid shows
  pageClosed,          \* the browser page is gone; every call on it rejects
  viewOpen,            \* the view of the row in hand was opened and the
                       \* Escape press for it has not been made
  abortCause,          \* why the run ended with an exception
  processed,           \* grid pages handed to processCurrentPage, in order
  handled,             \* handled[p][r]: times row r of page p was read
  nextCalls,           \* goToNextPage calls
  anomalies,           \* advances after which the grid showed the same page
  clicked,             \* this invocation clicked the document link
  dismissed,           \* Escape presses issued by this invocation
  raised,              \* this invocation raised in click .. persist
  validated,           \* this invocation ran isValidPdf
  result,              \* outcome of the last invocation of processFilingRecord
  saved,               \* completed saves, per natural key
  ids,                 \* <<natural key, id>> pairs returned by the upsert
  harnessCalls,        \* savePdfToDb calls issued by the harness
  pagerRead,           \* what the read of the pagination summary gave
  paginationInfo,      \* scrapeCommand: paginationInfo, until its last use
  frameAfter,          \* scans that find no viewer frame before it is attached
  nextClicks,          \* clicks goToNextPage issued on the Next control
  arg,                 \* a pure function applied alone: its arguments
  ret,                 \* ... and what it returned
  sticky,              \* the portal's document views may ignore Escape
  storeBefore,         \* the two tables as they were when the invocation
                       \* of processFilingRecord in hand was called
  staleFrame,          \* data URL of the first viewer frame left attached
  lastSkip,            \* why the row read last was skipped, if it was
  exportRows,          \* exportCommand: rows, the result of the query
  exportIndex,         \* exportCommand: position of the for-of loop
  count,               \* exportCommand: count
  files                \* exportCommand: the writeFileSync calls made, in
                       \* order, each [name, bytes]

storeVars == << filings, filing_pdfs, sqlite_sequence >>
pagerVars == << pagerRead, paginationInfo >>
cmdVars   == << options, db, pagerVars, totalPages, currentPage,
               downloadCount >>
pageVars  == << rows, i, pageDownloadCount, lastSkip >>
pfrVars   == << record, pdfUrl, key, buffer, branch, filingId >>
envVars   == << grid, staleFrame, gridPage, pageClosed, viewOpen >>
runGhost  == << processed, handled, nextCalls, nextClicks, anomalies >>
pfrGhost  == << clicked, frameAfter, dismissed, raised, validated, result >>
saveGhost == << saved, ids, harnessCalls >>
fnVars    == << arg, ret >>
exportVars == << exportRows, exportIndex, count, files >>

vars == << pc, caller, abortCause, storeVars, cmdVars, pageVars, pfrVars,
           envVars, runGhost, pfrGhost, saveGhost, fnVars, sticky,
           storeBefore, exportVars >>

NoStore == filings = {} /\ filing_pdfs = {} /\ sqlite_sequence = 0

\* no invocation of processFilingRecord is in hand
NoSnapshot == [filings |-> {}, filing_pdfs |-> {}]

NoRun ==
  /\ storeBefore = NoSnapshot
  /\ totalPages = 0 /\ currentPage = 0 /\ downloadCount = 0
  /\ rows = 0 /\ i = 0 /\ pageDownloadCount = 0 /\ lastSkip = "none"
  /\ staleFrame = Null
  /\ exportRows = << >> /\ exportIndex = 0 /\ count = 0 /\ files = << >>
  /\ record = NoRecord /\ pdfUrl = Null /\ key = << >> /\ buffer = NoBuffer
  /\ branch = "none" /\ filingId = 0
  /\ gridPage = 0 /\ pageClosed = FALSE /\ viewOpen = FALSE
  /\ abortCause = "none"
  /\ pagerRead = NoArg /\ paginationInfo = NoPaginationInfo
  /\ processed = << >> /\ nextCalls = 0 /\ nextClicks = 0 /\ anomalies = 0
  /\ clicked = FALSE /\ frameAfter = 0 /\ dismissed = 0 /\ raised = FALSE /\ validated = FALSE
  /\ result = "none"
  /\ saved = {} /\ ids = {} /\ harnessCalls = 0

Idle == NoStore /\ NoRun

\* scrapeCommand has parsed its arguments
Init ==
  /\ pc = "start" /\ caller = "run" /\ db = "unset"
  /\ options \in [output : BOOLEAN, debug : BOOLEAN]
  /\ grid \in Grids
  /\ handled = [p \in 1..Len(grid) |-> [r \in 1..grid[p] |-> 0]]
  /\ arg = NoArg /\ ret = NoReturn /\ sticky = FALSE
  /\ Idle

\* ------------------------------------------------------------------ browser
\* outcomes of a Playwright call that waits for an element or a load state
CallOutcomes == IF pageClosed THEN {"closed"} ELSE {"ok", "timeout", "closed"}
\* outcomes of a key press or a fixed wait
WaitOutcomes == IF pageClosed THEN {"closed"} ELSE {"ok", "closed"}

\* an exception leaves scrapeCommand: the summary and browser.close() are
\* not reached
Abort(cause) == pc' = "aborted" /\ abortCause' = cause

\* the failure is recorded and the command goes on to the search
InitFailed_Ignored == pc' = "search" /\ abortCause' = "init"

\* new DatabaseSync / db.exec or chromium.launch / newContext / newPage
\* throws: nothing in scrapeCommand catches it
InitFailed == Abort("init")

\* ------------------------------------------------------------------ scrapeCommand
\* const db = initDatabase(options.output)
InitDatabase ==
  /\ pc = "start" /\ caller = "run"
  /\ \E opened \in BOOLEAN :
       IF ~options.output
       THEN db' = "null" /\ pc' = "launch" /\ UNCHANGED abortCause
       ELSE IF opened
            THEN db' = "open" /\ pc' = "launch" /\ UNCHANGED abortCause
            ELSE db' = db /\ InitFailed
  /\ UNCHANGED << caller, sticky, storeBefore, fnVars, exportVars, storeVars, options, pagerVars,
                  totalPages, currentPage, downloadCount, pageVars, pfrVars, envVars, runGhost,
                  pfrGhost, saveGhost >>

\* chromium.launch, browser.newContext, context.newPage
LaunchBrowser ==
  /\ pc = "launch"
  /\ \E launched \in BOOLEAN :
       IF launched THEN pc' = "search" /\ UNCHANGED abortCause
                   ELSE InitFailed
  /\ UNCHANGED << caller, sticky, storeBefore, fnVars, exportVars, storeVars, cmdVars, pageVars, pfrVars, envVars,
                  runGhost, pfrGhost, saveGhost >>

\* performSearch: the grid shows its first page
PerformSearch ==
  /\ pc = "search"
  /\ \E o \in CallOutcomes :
       CASE o = "ok" ->
              /\ gridPage' = 1 /\ pc' = "pagination"
              /\ UNCHANGED << abortCause, pageClosed >>
         [] o = "timeout" ->
              /\ Abort("search") /\ UNCHANGED << gridPage, pageClosed >>
         [] o = "closed" ->
              /\ Abort("search") /\ pageClosed' = TRUE /\ UNCHANGED gridPage
  /\ UNCHANGED << caller, sticky, storeBefore, fnVars, exportVars, storeVars, cmdVars, pageVars, pfrVars, grid, staleFrame,
                  viewOpen, runGhost, pfrGhost, saveGhost >>

\* the total as reported, also when there is none
TotalPagesOf_Reported(info) == info.totalPages

\* `paginationInfo?.totalPages || 1`
TotalPagesOf(info) ==
  IF info.found /\ info.totalPages # 0 THEN info.totalPages ELSE 1

\* const paginationInfo = await getPaginationInfo(page);
\* totalPages = paginationInfo?.totalPages || 1
GetPaginationInfo ==
  /\ pc = "pagination"
  /\ \E a \in RunPagerArgs :
       /\ pageClosed => a.kind = "thrown"
       /\ pagerRead' = a
       /\ paginationInfo' = getPaginationInfo(PagerReadOf(a))
       /\ totalPages' = TotalPagesOf(paginationInfo')
  /\ downloadCount' = 0
  /\ currentPage' = 1
  /\ pc' = "page"
  /\ UNCHANGED << caller, sticky, storeBefore, fnVars, exportVars, abortCause, storeVars, options, db, pageVars,
                  pfrVars, envVars, runGhost, pfrGhost, saveGhost >>

\* goToNextPage and, when it returned true, currentPage++
GoToNextPage ==
  /\ pc = "next"
  /\ nextCalls' = nextCalls + 1
  /\ IF pageClosed
     THEN /\ Abort("browser")
          /\ UNCHANGED << currentPage, gridPage, pageClosed, anomalies,
                          nextClicks >>
     ELSE IF gridPage >= Len(grid)
     THEN \* no enabled Next control: return false
          /\ pc' = "summary"
          /\ UNCHANGED << abortCause, currentPage, gridPage, pageClosed,
                          anomalies, nextClicks >>
     ELSE \E o \in {"ok", "stale", "click_timeout", "idle_timeout", "closed"} :
            \* await nextButton.click()
            /\ nextClicks' = nextClicks + 1
            /\ CASE o = "ok" ->
                   /\ gridPage' = gridPage + 1
                   /\ currentPage' = currentPage + 1
                   /\ pc' = "page"
                   /\ UNCHANGED << abortCause, pageClosed, anomalies >>
              [] o = "stale" ->
                   \* the waits ended and the grid still shows the old page
                   /\ anomalies' = anomalies + 1
                   /\ currentPage' = currentPage + 1
                   /\ pc' = "page"
                   /\ UNCHANGED << abortCause, gridPage, pageClosed >>
              [] o = "click_timeout" ->
                   /\ Abort("navigation")
                   /\ UNCHANGED << currentPage, gridPage, pageClosed,
                                   anomalies >>
              [] o = "idle_timeout" ->
                   \* waitForLoadState('networkidle') rejects
                   /\ gridPage' = gridPage + 1
                   /\ Abort("networkidle")
                   /\ UNCHANGED << currentPage, pageClosed, anomalies >>
              [] o = "closed" ->
                   /\ pageClosed' = TRUE
                   /\ Abort("browser")
                   /\ UNCHANGED << currentPage, gridPage, anomalies >>
  /\ UNCHANGED << caller, sticky, storeBefore, fnVars, exportVars, storeVars, options, db, pagerVars,
                  totalPages, downloadCount, pageVars, pfrVars, grid, staleFrame,
                  viewOpen, processed, handled, pfrGhost, saveGhost >>

\* the final summary and browser.close()
Finish ==
  /\ pc = "summary"
  /\ pc' = "done"
  /\ UNCHANGED << caller, sticky, storeBefore, fnVars, exportVars, abortCause, storeVars, cmdVars, pageVars, pfrVars,
                  envVars, runGhost, pfrGhost, saveGhost >>

\* ------------------------------------------------------------------ processCurrentPage
\* const rows = await page.locator('tr[id*="gridFilers_DXDataRow"]').all()
LocateRows ==
  /\ pc = "page"
  /\ \E o \in WaitOutcomes :
       IF o = "ok"
       THEN /\ rows' = grid[gridPage]
            /\ i' = 1
            /\ pageDownloadCount' = 0 /\ lastSkip' = "none"
            /\ processed' = Append(processed, gridPage)
            /\ pc' = "row"
            /\ UNCHANGED << abortCause, pageClosed >>
       ELSE /\ pageClosed' = TRUE
            /\ Abort("browser")
            /\ UNCHANGED << pageVars, processed >>
  /\ pagerRead' = NoArg /\ paginationInfo' = NoPaginationInfo
  /\ UNCHANGED << caller, sticky, storeBefore, fnVars, exportVars, storeVars, options, db, totalPages,
                  currentPage, downloadCount, pfrVars, grid, staleFrame, gridPage,
                  viewOpen, handled, nextCalls, nextClicks, anomalies,
                  pfrGhost, saveGhost >>

\* one iteration of the row loop up to the call of processFilingRecord: the
\* six textContent() reads, extractFilingRecord, the link lookup
ReadRow ==
  /\ pc = "row" /\ i <= rows
  /\ handled' = [handled EXCEPT ![gridPage][i] = @ + 1]
  /\ \E row \in RowInputs, o \in WaitOutcomes :
       IF o = "closed"
       THEN /\ pageClosed' = TRUE
            /\ Abort("browser")
            /\ UNCHANGED << i, lastSkip, record, pfrGhost, storeBefore >>
       ELSE IF Len(row.cells) < ColumnCount
       THEN \* textContent() of a cell that never appears: TimeoutError
            /\ Abort("row")
            /\ UNCHANGED << pageClosed, i, lastSkip, record, pfrGhost,
                            storeBefore >>
       ELSE IF ParsedRow[row].tag = "throw"
       THEN /\ Abort("row")
            /\ UNCHANGED << pageClosed, i, lastSkip, record, pfrGhost,
                            storeBefore >>
       ELSE IF ParsedRow[row].tag = "null" \/ ~row.hasLink
       THEN \* `continue`, or no link in the row
            /\ i' = i + 1
            /\ lastSkip' = IF ParsedRow[row].tag = "null" THEN "unparsable"
                           ELSE "nolink"
            /\ pc' = "row"
            /\ UNCHANGED << abortCause, pageClosed, record, pfrGhost,
                            storeBefore >>
       ELSE /\ record' = ParsedRow[row].rec
            /\ clicked' = FALSE /\ frameAfter' = 0 /\ dismissed' = 0
            /\ raised' = FALSE /\ validated' = FALSE /\ result' = "none"
            /\ pc' = "pfr_click" /\ lastSkip' = "none"
            /\ storeBefore' = [filings |-> filings,
                               filing_pdfs |-> filing_pdfs]
            /\ UNCHANGED << abortCause, pageClosed, i >>
  /\ UNCHANGED << caller, sticky, fnVars, exportVars, storeVars, cmdVars, rows, pageDownloadCount,
                  pdfUrl, key, buffer, branch, filingId, grid, staleFrame, gridPage,
                  viewOpen, processed, nextCalls, nextClicks, anomalies,
                  saveGhost >>

\* processCurrentPage returns; downloadCount += pageCount and the test
\* `currentPage >= totalPages` of the run loop
PageDone ==
  /\ pc = "row" /\ i > rows
  /\ downloadCount' = downloadCount + pageDownloadCount
  /\ pc' = IF currentPage >= totalPages THEN "summary" ELSE "next"
  /\ lastSkip' = "none"
  /\ UNCHANGED << caller, sticky, storeBefore, fnVars, exportVars, abortCause, storeVars, options, db,
                  pagerVars, totalPages, currentPage, rows, i,
                  pageDownloadCount, pfrVars,
                  envVars, runGhost, pfrGhost, saveGhost >>

\* ------------------------------------------------------------------ processFilingRecord
\* `return success`: processFilingRecord is over
Return(success) ==
  /\ result' = IF success THEN "true" ELSE "false"
  /\ pc' = "pfr_returned"

NoLocals ==
  /\ record' = NoRecord /\ pdfUrl' = Null /\ key' = << >>
  /\ buffer' = NoBuffer /\ branch' = "none" /\ filingId' = 0

\* back in processCurrentPage: if (success) pageDownloadCount++, and i++
RowDone ==
  /\ pc = "pfr_returned"
  /\ pageDownloadCount' = IF result = "true" THEN pageDownloadCount + 1
                          ELSE pageDownloadCount
  /\ i' = i + 1
  /\ pc' = "row"
  /\ NoLocals
  /\ clicked' = FALSE /\ frameAfter' = 0 /\ dismissed' = 0
  /\ raised' = FALSE /\ validated' = FALSE /\ result' = "none"
  /\ storeBefore' = NoSnapshot
  /\ UNCHANGED << caller, sticky, fnVars, exportVars, abortCause, storeVars, cmdVars, rows, lastSkip,
                  envVars, runGhost, saveGhost >>

\* an exception inside the try block: control goes to the catch clause
Catch == pc' = "pfr_catch"

\* the scans of page.frames(), one second apart, that the portal may let
\* pass before the viewer frame of an opened document is attached;
\* PollCount: no scan of the bounded polling finds it
FrameDelays == 0..PollCount

\* await pdfLink.click(); await page.waitForTimeout(1500)
Click ==
  /\ pc = "pfr_click"
  /\ \E o \in CallOutcomes :
       CASE o = "ok" ->
              /\ clicked' = TRUE /\ viewOpen' = TRUE /\ pc' = "pfr_scan"
              /\ \E d \in FrameDelays : frameAfter' = d
              /\ UNCHANGED << raised, pageClosed >>
         [] o = "timeout" ->
              /\ raised' = TRUE /\ Catch
              /\ UNCHANGED << clicked, frameAfter, viewOpen, pageClosed >>
         [] o = "closed" ->
              /\ raised' = TRUE /\ Catch /\ pageClosed' = TRUE
              /\ \E done \in BOOLEAN :
                   /\ clicked' = done
                   /\ viewOpen' = (viewOpen \/ done)
              /\ UNCHANGED frameAfter
  /\ UNCHANGED << caller, sticky, storeBefore, fnVars, exportVars, abortCause, storeVars, cmdVars, pageVars, pfrVars,
                  grid, staleFrame, gridPage, runGhost, dismissed, validated, result,
                  saveGhost >>

\* the data URL in the viewer frame of the view just opened: the portal
\* gives every view a URL of its own
FreshUrls == {Text(x) : x \in PdfUrls} \ {staleFrame}

\* const pdfUrl = await extractPdfUrlFromIframe(page): one scan of
\* page.frames(), made once after the fixed wait.  It returns the data URL
\* of the first frame that holds a PDF object: the frame left attached by an
\* earlier view, if there is one, comes before the frame of the view just
\* opened.  It returns null when no frame holds a PDF object yet, and may
\* return null or skip a frame when a frame cannot be read.
ScanOnce ==
  IF pageClosed THEN {Null}
  ELSE (IF staleFrame.null THEN {} ELSE {staleFrame})
         \cup (IF frameAfter >= 1 THEN {Null} ELSE {Null} \cup FreshUrls)

\* extractPdfUrlFromIframe, extractSessionKey, buildDownloadUrl
ResolveKey ==
  /\ pc = "pfr_scan"
  /\ \E u \in ScanOnce :
       /\ pageClosed => u.null
       /\ pdfUrl' = u
       /\ IF u.null
          THEN branch' = "nourl" /\ pc' = "pfr_dismiss" /\ UNCHANGED key
          ELSE IF SessionKeyOf[u.s].null
          THEN branch' = "nokey" /\ pc' = "pfr_dismiss" /\ UNCHANGED key
          ELSE /\ key' = SessionKeyOf[u.s].s
               /\ pc' = "pfr_fetch"
               /\ UNCHANGED branch
  /\ UNCHANGED << caller, sticky, storeBefore, fnVars, exportVars, abortCause, storeVars, cmdVars, pageVars, record,
                  buffer, filingId, envVars, runGhost, pfrGhost, saveGhost >>

\* const buffer = await downloadPdfData(page, downloadUrl)
\* the host never answers: fetch() inside page.evaluate has no timeout and
\* no AbortSignal, and page.evaluate has none either
FetchOutcomes == IF pageClosed THEN {} ELSE {"pending"}

DownloadPdfData ==
  /\ pc = "pfr_fetch"
  /\ \E o \in CallOutcomes \cup FetchOutcomes :
       CASE o = "ok" ->
              /\ \E b \in Responses : buffer' = b
              /\ pc' = "pfr_validate"
              /\ UNCHANGED << raised, pageClosed >>
         [] o = "timeout" ->
              \* fetch() rejects inside the page
              /\ raised' = TRUE /\ Catch
              /\ UNCHANGED << buffer, pageClosed >>
         [] o = "closed" ->
              /\ raised' = TRUE /\ Catch /\ pageClosed' = TRUE
              /\ UNCHANGED buffer
         [] o = "pending" ->
              \* the await of downloadPdfData never settles
              /\ pc' = "pfr_pending"
              /\ UNCHANGED << raised, buffer, pageClosed >>
  /\ UNCHANGED << caller, sticky, storeBefore, fnVars, exportVars, abortCause, storeVars, cmdVars, pageVars, record,
                  pdfUrl, key, branch, filingId, grid, staleFrame, gridPage, viewOpen,
                  runGhost, clicked, frameAfter, dismissed, validated, result,
                  saveGhost >>

\* the store is written also when none was asked for
DryRun_Never == FALSE

\* savePdfToDb: if (!db) { console.log(...); return; }
DryRun == db = "null"

\* if (valid) { savePdfToDb(db, record, buffer) ... } else ...
ValidateIf(valid) ==
  /\ pc = "pfr_validate"
  /\ validated' = TRUE
  /\ IF valid
     THEN IF DryRun
          THEN branch' = "ok" /\ pc' = "pfr_dismiss"
          ELSE pc' = "stmtFiling" /\ UNCHANGED branch
     ELSE branch' = "invalid" /\ pc' = "pfr_dismiss"
  /\ UNCHANGED << caller, sticky, storeBefore, fnVars, exportVars, abortCause, storeVars, cmdVars, pageVars, record,
                  pdfUrl, key, buffer, filingId, envVars, runGhost, clicked, frameAfter,
                  dismissed, raised, result, saveGhost >>

\* a check of the signature alone
Validate_SignatureOnly == ValidateIf(buffer.head = PdfMagic)

\* if (isValidPdf(buffer)) ...
Validate == ValidateIf(isValidPdf(buffer))

\* ------------------------------------------------------------------ savePdfToDb
\* a statement of savePdfToDb rejects (SQLITE_BUSY, SQLITE_FULL, I/O error)
SaveThrows ==
  IF caller = "run"
  THEN raised' = TRUE /\ pc' = "pfr_catch"
  ELSE pc' = "harness" /\ UNCHANGED raised

\* savePdfToDb returns
SaveReturns ==
  IF caller = "run"
  THEN branch' = "ok" /\ pc' = "pfr_dismiss"
  ELSE pc' = "harness" /\ UNCHANGED branch

\* const result = stmtFiling.get(...); const filingId = result.id
StmtFilingGet ==
  /\ pc = "stmtFiling"
  /\ \E ok \in BOOLEAN :
       IF ok
       THEN LET up == UpsertFiling(filings, sqlite_sequence, record)
            IN  /\ filings' = up.table
                /\ sqlite_sequence' = up.seq
                /\ filingId' = up.id
                /\ ids' = ids \cup {<< RecordKey(record), up.id >>}
                /\ pc' = "stmtPdf"
                /\ UNCHANGED raised
       ELSE /\ SaveThrows
            /\ UNCHANGED << filings, sqlite_sequence, filingId, ids >>
  /\ UNCHANGED << caller, sticky, storeBefore, fnVars, exportVars, abortCause, filing_pdfs, cmdVars, pageVars, record,
                  pdfUrl, key, buffer, branch, envVars, runGhost, clicked, frameAfter,
                  dismissed, validated, result, saved, harnessCalls >>

\* stmtPdf.run(filingId, pdfBuffer)
StmtPdfRun ==
  /\ pc = "stmtPdf"
  /\ \E ok \in BOOLEAN :
       IF ok
       THEN /\ filing_pdfs' = ReplaceBlob(filing_pdfs, filingId, buffer)
            /\ saved' =
                 {e \in saved : e.key # RecordKey(record)}
                   \cup {[key   |-> RecordKey(record),
                          rec   |-> record,
                          blob  |-> buffer,
                          again |-> \E e \in saved :
                                      /\ e.key = RecordKey(record)
                                      /\ (e.again \/ e.blob # buffer)]}
            /\ SaveReturns
            /\ UNCHANGED raised
       ELSE /\ SaveThrows
            /\ UNCHANGED << filing_pdfs, saved, branch >>
  /\ UNCHANGED << caller, sticky, storeBefore, fnVars, exportVars, abortCause, filings, sqlite_sequence, cmdVars,
                  pageVars, record, pdfUrl, key, buffer, filingId, envVars,
                  runGhost, clicked, frameAfter, dismissed, validated, result, ids,
                  harnessCalls >>

\* the store alone: savePdfToDb(db, record, pdfBuffer) on an open store
HarnessCall ==
  /\ pc = "harness" /\ harnessCalls < MaxSaves
  /\ \E rec \in HarnessRecords, b \in Buffers :
       record' = rec /\ buffer' = b
  /\ harnessCalls' = harnessCalls + 1
  /\ pc' = "stmtFiling"
  /\ UNCHANGED << caller, sticky, storeBefore, fnVars, exportVars, abortCause, storeVars, cmdVars, pageVars, pdfUrl,
                  key, branch, filingId, envVars, runGhost, pfrGhost, saved,
                  ids >>

\* ------------------------------------------------------------------ dismiss
\* what the Escape press leaves behind: nothing where the portal closes the
\* view; where it may ignore the key, the viewer frame of the view stays
\* attached (behind the frame an earlier view left, if any)
ViewLeft ==
  IF ~sticky \/ ~viewOpen \/ ~staleFrame.null THEN {staleFrame}
  ELSE IF pdfUrl.null THEN {Null} \cup FreshUrls
  ELSE {Null, pdfUrl}

\* the pause is made after every saved document
PauseWanted_Always == TRUE

\* if (debugMode) { ... await page.waitForTimeout(5 * 60 * 1000) }
PauseWanted == options.debug

\* await page.keyboard.press('Escape'); await page.waitForTimeout(500) at the
\* sites inside the try block (one per branch), then the return (or the
\* debug pause).  sites: the branches that press Escape.
DismissAt(sites) ==
  /\ pc = "pfr_dismiss"
  /\ \E o \in IF branch \in sites THEN WaitOutcomes ELSE {"ok"} :
       IF o = "ok"
       THEN /\ dismissed' = IF branch \in sites THEN dismissed + 1
                             ELSE dismissed
            /\ viewOpen' = (viewOpen /\ branch \notin sites)
            /\ frameAfter' = IF branch \in sites THEN 0 ELSE frameAfter
            /\ staleFrame' \in IF branch \in sites THEN ViewLeft
                               ELSE {staleFrame}
            /\ UNCHANGED pageClosed
            /\ IF branch = "ok" /\ PauseWanted
               THEN pc' = "pfr_debug" /\ UNCHANGED result
               ELSE Return(branch = "ok")
       ELSE /\ pageClosed' = TRUE
            /\ dismissed' = dismissed + 1
            /\ Catch
            /\ UNCHANGED << viewOpen, frameAfter, staleFrame, result >>
  /\ UNCHANGED << caller, sticky, storeBefore, fnVars, exportVars, abortCause, storeVars, cmdVars, pageVars,
                  pfrVars, grid, gridPage, runGhost, clicked, raised,
                  validated, saveGhost >>

\* the invalid-artifact branch returns without the key press
Dismiss_NotOnInvalid == DismissAt({"nourl", "nokey", "ok"})

Dismiss == DismissAt({"nourl", "nokey", "invalid", "ok"})

\* await page.waitForTimeout(5 * 60 * 1000); return true
DebugPause ==
  /\ pc = "pfr_debug"
  /\ \E o \in WaitOutcomes :
       IF o = "ok"
       THEN Return(TRUE) /\ UNCHANGED pageClosed
       ELSE /\ pageClosed' = TRUE
            /\ Catch
            /\ UNCHANGED result
  /\ UNCHANGED << caller, sticky, storeBefore, fnVars, exportVars, abortCause, storeVars, cmdVars, pageVars, pfrVars,
                  grid, staleFrame, gridPage, viewOpen, runGhost, clicked, frameAfter, dismissed,
                  raised, validated, saveGhost >>

\* the catch clause: Escape, wait, return false; an exception raised here
\* leaves processFilingRecord, processCurrentPage and scrapeCommand
CatchDismiss ==
  /\ pc = "pfr_catch"
  /\ \E o \in WaitOutcomes :
       IF o = "ok"
       THEN /\ dismissed' = dismissed + 1
            /\ viewOpen' = FALSE
            /\ frameAfter' = 0
            /\ staleFrame' \in ViewLeft
            /\ Return(FALSE)
            /\ UNCHANGED << abortCause, pageClosed >>
       ELSE /\ pageClosed' = TRUE
            /\ dismissed' = dismissed + 1
            /\ result' = "threw"
            /\ Abort("browser")
            /\ UNCHANGED << viewOpen, frameAfter, staleFrame >>
  /\ UNCHANGED << caller, sticky, storeBefore, fnVars, exportVars, storeVars, cmdVars, pageVars, pfrVars, grid,
                  gridPage, runGhost, clicked, raised, validated, saveGhost >>

\* the process is stopped from outside.  Elsewhere a stop leaves nothing
\* behind that the next step would not; between the two statements of
\* savePdfToDb it leaves the metadata row of the first.
ProcessStops ==
  /\ pc = "stmtPdf"
  /\ pc' = "killed"
  /\ UNCHANGED << caller, sticky, storeBefore, fnVars, exportVars, abortCause, storeVars, cmdVars, pageVars, pfrVars,
                  envVars, runGhost, pfrGhost, saveGhost >>

\* ------------------------------------------------------------------ pure functions alone
\* A cell of a grid row as the portal renders it: null (textContent() gave
\* null) or the text lead \o core \o trail, lead and trail being white space
\* around a core that neither starts nor ends with white space.
NullCell == [null |-> TRUE, lead |-> << >>, core |-> << >>, trail |-> << >>]
Cell(lead, core, trail) ==
  [null |-> FALSE, lead |-> lead, core |-> core, trail |-> trail]

CellText(c) == IF c.null THEN Null ELSE Text(c.lead \o c.core \o c.trail)

\* the fields of a date cell joined by the separator the portal wrote
RECURSIVE Join(_, _)
Join(fields, sep) ==
  IF Len(fields) = 1 THEN fields[1]
  ELSE fields[1] \o << sep >> \o Join(Tail(fields), sep)

NullDate ==
  [null |-> TRUE, lead |-> << >>, fields |-> << << >> >>, sep |-> "/",
   trail |-> << >>]
Date(lead, fields, sep, trail) ==
  [null |-> FALSE, lead |-> lead, fields |-> fields, sep |-> sep,
   trail |-> trail]

DateText(d) ==
  IF d.null THEN Null ELSE Text(d.lead \o Join(d.fields, d.sep) \o d.trail)

FormCells ==
  {NullCell,
   Cell(<< >>, << >>, << >>),
   Cell(<< " " >>, << >>, << " " >>),
   Cell(<< >>, << "4", "1", "0" >>, << >>),
   Cell(<< " " >>, << "4", "6", "0", " ", "A", "m", "d" >>, << "\n" >>)}

DateCells ==
  {NullDate,
   Date(<< >>, << << >> >>, "/", << >>),
   Date(<< " " >>, << << >> >>, "/", << >>),
   Date(<< >>, << << "6" >>, << "3", "0" >>, << "2", "0", "2", "5" >> >>,
        "/", << >>),
   Date(<< " " >>, << << "7" >>, << "2", "9" >>, << "2", "0", "2", "5" >> >>,
        "/", << "\n" >>),
   Date(<< >>, << << "1", "2" >>, << "1" >>, << "2", "0", "2", "4" >> >>,
        "/", << " " >>),
   Date(<< "\t" >>, << << "0", "1" >>, << "0", "2" >>,
                       << "2", "0", "2", "5" >> >>, "/", << >>),
   Date(<< >>, << << "2", "0", "2", "5" >> >>, "/", << >>),
   Date(<< >>, << << "6" >>, << "3", "0" >>, << "2", "0", "2", "5" >> >>,
        "-", << >>),
   Date(<< >>, << << "6" >>, << "2", "0", "2", "5" >> >>, "/", << >>),
   Date(<< >>, << << "1" >>, << "2" >>, << "2", "0", "2", "5" >>,
                  << "9" >> >>, "/", << >>)}

FilerCells ==
  {NullCell,
   Cell(<< >>, << >>, << >>),
   Cell(<< " " >>, << "L", "e", "e" >>, << " " >>),
   Cell(<< >>, << "A", " ", "B" >>, << >>)}
LastNameCells   == {NullCell, Cell(<< " " >>, << "Q" >>, << >>)}
FirstNameCells  == {NullCell, Cell(<< >>, << "A" >>, << "\t" >>)}
MiddleNameCells == {NullCell, Cell(<< " " >>, << >>, << >>)}

\* the arguments of extractFilingRecord, as the six cells of a row
ParserArgs ==
  [fn : {"extractFilingRecord"}, form : FormCells, date : DateCells,
   filer : FilerCells, last : LastNameCells, first : FirstNameCells,
   middle : MiddleNameCells]

\* A form-type cell by its parts: white space, a run of digits, a suffix
\* (a dash and an upper-case letter, or nothing), a remainder that does not
\* extend the digits or the suffix, white space.
NullFormCell ==
  [null |-> TRUE, lead |-> << >>, digits |-> << >>, suffix |-> << >>,
   rest |-> << >>, trail |-> << >>]
FormCell(lead, digits, suffix, rest, trail) ==
  [null |-> FALSE, lead |-> lead, digits |-> digits, suffix |-> suffix,
   rest |-> rest, trail |-> trail]

FormCellText(c) ==
  IF c.null THEN Null
  ELSE Text(c.lead \o c.digits \o c.suffix \o c.rest \o c.trail)

PatternFormCells ==
  {NullFormCell,
   FormCell(<< >>, << >>, << >>, << >>, << >>),
   FormCell(<< " " >>, << >>, << >>, << >>, << "\n" >>),
   FormCell(<< >>, << "4", "1", "0" >>, << >>,
            << " ", "S", "t", "m", "t", ",", " ", "F", "o", "r", "m", " ",
               "4", "1", "0" >>, << >>),
   FormCell(<< >>, << "4", "1", "0" >>, << "-", "A" >>,
            << " ", "S", "t", "m", "t" >>, << >>),
   FormCell(<< " " >>, << "4", "6", "0" >>, << "-", "B" >>, << >>, << "\n" >>),
   FormCell(<< >>, << "0" >>, << >>, << >>, << >>),
   FormCell(<< >>, << "4", "1", "0" >>, << >>, << "-", "a" >>, << >>),
   FormCell(<< >>, << "4", "1", "0" >>, << "-", "A" >>, << "B" >>, << >>),
   FormCell(<< >>, << "4", "1", "0" >>, << >>, << "-", "-", "A" >>, << >>),
   FormCell(<< >>, << "4", "1", "0" >>, << >>, << "A" >>, << >>),
   FormCell(<< "\t" >>, << >>, << >>,
            << "F", "o", "r", "m", " ", "4", "1", "0" >>, << >>),
   FormCell(<< >>, << >>, << >>, << "-", "A" >>, << >>)}

PatternLastCells ==
  {NullCell,
   Cell(<< >>, << >>, << >>),
   Cell(<< " " >>, << >>, << >>),
   Cell(<< " " >>, << "S", "a", "n", "t", "a", "n", "a" >>, << "\n" >>)}

\* the arguments of the pattern variant, as the three cells it is given
PatternArgs ==
  [fn : {"extractFilingRecordPattern"}, form : PatternFormCells,
   date : DateCells, last : PatternLastCells]

\* the --start and --end dates of a run, by their zero-padded fields
IsoArgs ==
  [fn : {"convertDateFormat"},
   year  : {<< "2", "0", "2", "5" >>, << "1", "9", "9", "9" >>},
   month : {<< "0", "1" >>, << "0", "6" >>, << "1", "2" >>},
   day   : {<< "0", "1" >>, << "0", "9" >>, << "3", "0" >>}]

IsoText(a) == a.year \o << "-" >> \o a.month \o << "-" >> \o a.day

\* buffers around the length and signature tests of isValidPdf
BufferLengths == {0, 1, 3, 4, 99, 100, 101, 102, 500}
BufferHeads ==
  {PdfMagic, << 60, 33, 100, 111 >>, << 0, 80, 68, 70 >>, << 37, 0, 68, 70 >>,
   << 37, 80, 0, 70 >>, << 37, 80, 68, 0 >>}
Min(a, b) == IF a <= b THEN a ELSE b
ValidatorArgs ==
  {[fn |-> "isValidPdf",
    buffer |-> [len |-> n, head |-> SubSeq(h, 1, Min(n, 4)), rest |-> "x"]] :
     n \in BufferLengths, h \in BufferHeads}

\* references to the viewer: prefix, handler name, the text between the
\* handler name and the query, the key parameter, the key text and a tail
UrlPrefixes == {<< >>, << "/", "W", "/" >>}
UrlHandlers ==
  {HandlerName,
   << "P", "d", "f", "H", "a", "n", "d", "l", "e", "r", "_", "a", "x", "d" >>,
   << "p", "d", "f", "h", "a", "n", "d", "l", "e", "r", ".", "a", "x", "d" >>}
UrlMids == {<< >>, << "/", "F", "o", "r", "m" >>, << "?", "x" >>}
UrlParams == {KeyParam, << "&", "k", "e", "y", "=" >>}
UrlKeyTexts ==
  {KeyA,
   KeyB \o << "a", "b" >>,
   SubSeq(KeyA, 1, KeyLength - 1),
   [KeyA EXCEPT ![5] = "F"],
   [KeyA EXCEPT ![KeyLength] = "g"],
   << >>}
UrlTails == {<< >>, << "&", "f", "=", "F" >>}
KeyArgs ==
  [fn : {"extractSessionKey"}, prefix : UrlPrefixes, handler : UrlHandlers,
   mid : UrlMids, param : UrlParams, keyText : UrlKeyTexts, tail : UrlTails]

UrlText(a) ==
  a.prefix \o a.handler \o a.mid \o a.param \o a.keyText \o a.tail

UrlArgs == {[fn |-> "buildDownloadUrl", key |-> k] : k \in {KeyA, KeyB, << >>}}

PureArgs ==
  ParserArgs \cup PatternArgs \cup ValidatorArgs \cup KeyArgs \cup UrlArgs
    \cup PagerArgs \cup IsoArgs

Returned(v) == [tag |-> "returned", value |-> v]

\* a pure function is applied to arg and returns; nothing else changes
Apply(fn, value) ==
  /\ pc = "apply" /\ arg.fn = fn
  /\ ret' = Returned(value)
  /\ pc' = "applied"
  /\ UNCHANGED << caller, sticky, storeBefore, exportVars, arg, abortCause, storeVars, cmdVars, pageVars,
                  pfrVars, envVars, runGhost, pfrGhost, saveGhost >>

ApplyExtractFilingRecord ==
  Apply("extractFilingRecord",
        extractFilingRecord(CellText(arg.form), DateText(arg.date),
                            CellText(arg.filer), CellText(arg.last),
                            CellText(arg.first), CellText(arg.middle)))

ApplyExtractFilingRecordPattern ==
  Apply("extractFilingRecordPattern",
        extractFilingRecordPattern(FormCellText(arg.form), DateText(arg.date),
                                   CellText(arg.last)))

\* convertDateFormat, and extractFilingRecord on a grid row that shows the
\* converted date
ApplyConvertDateFormat ==
  Apply("convertDateFormat",
        [converted |-> convertDateFormat(IsoText(arg)),
         parsed    |-> extractFilingRecord(Text(<< "4", "1", "0" >>),
                                           Text(convertDateFormat(IsoText(arg))),
                                           Null, Null, Null, Null)])

ApplyIsValidPdf == Apply("isValidPdf", isValidPdf(arg.buffer))

ApplyExtractSessionKey ==
  Apply("extractSessionKey", extractSessionKey(UrlText(arg)))

ApplyBuildDownloadUrl == Apply("buildDownloadUrl", buildDownloadUrl(arg.key))

ApplyGetPaginationInfo ==
  Apply("getPaginationInfo", getPaginationInfo(PagerReadOf(arg)))

\* ------------------------------------------------------------------ specifications
Steps ==
  \/ InitDatabase \/ LaunchBrowser \/ PerformSearch \/ GetPaginationInfo
  \/ LocateRows \/ ReadRow \/ PageDone
  \/ RowDone \/ Click \/ ResolveKey \/ DownloadPdfData \/ Validate
  \/ StmtFilingGet \/ StmtPdfRun
  \/ Dismiss \/ DebugPause \/ CatchDismiss
  \/ GoToNextPage \/ Finish

Next == Steps \/ ProcessStops

Spec == Init /\ [][Next]_vars

\* the flow of control is never suspended forever unless the process is stopped
FairSpec == Init /\ [][Steps]_vars /\ WF_vars(Steps)

\* a run against a portal whose document views may ignore the Escape key
ViewInit ==
  /\ pc = "start" /\ caller = "run" /\ db = "unset"
  /\ options \in [output : BOOLEAN, debug : {FALSE}]
  /\ grid \in {g \in Grids : Len(g) = 1}
  /\ handled = [p \in 1..Len(grid) |-> [r \in 1..grid[p] |-> 0]]
  /\ arg = NoArg /\ ret = NoReturn /\ sticky = TRUE
  /\ Idle

ViewNext ==
  \/ InitDatabase \/ LaunchBrowser \/ PerformSearch \/ GetPaginationInfo
  \/ LocateRows \/ ReadRow \/ PageDone
  \/ RowDone \/ Click \/ ResolveKey \/ DownloadPdfData \/ Validate
  \/ StmtFilingGet \/ StmtPdfRun
  \/ Dismiss \/ CatchDismiss
  \/ GoToNextPage \/ Finish

ViewSpec == ViewInit /\ [][ViewNext]_vars

\* savePdfToDb alone, called any number of times on an open store
StoreInit ==
  /\ pc = "harness" /\ caller = "harness" /\ db = "open"
  /\ options = [output |-> TRUE, debug |-> FALSE]
  /\ grid = << >> /\ handled = << >>
  /\ arg = NoArg /\ ret = NoReturn /\ sticky = FALSE
  /\ Idle

StoreNext == HarnessCall \/ StmtFilingGet \/ StmtPdfRun \/ ProcessStops

StoreSpec == StoreInit /\ [][StoreNext]_vars

\* ------------------------------------------------------------------ exportCommand
\* the store that exportCommand opens was written by earlier runs: saves of
\* savePdfToDb in any order, a save being complete or stopped between its
\* two statements
ExportRecords ==
  LET a == Parse(RowSantana).rec
      b == Parse(RowLee).rec
  IN  {a, b, [a EXCEPT !.filerName = << "A", "/", "B" >>],
       [a EXCEPT !.candidateLastName = << "Q" >>]}

ExportSaves ==
  UNION {[1..n -> [rec : ExportRecords, blob : {PdfA, PdfB},
                   complete : BOOLEAN]] : n \in 0..MaxSaves}

RECURSIVE StoreAfter(_)
StoreAfter(saves) ==
  IF saves = << >>
  THEN [filings |-> {}, filing_pdfs |-> {}, seq |-> 0]
  ELSE LET n      == Len(saves)
           before == StoreAfter(SubSeq(saves, 1, n - 1))
           up     == UpsertFiling(before.filings, before.seq, saves[n].rec)
       IN  [filings     |-> up.table,
            filing_pdfs |-> IF saves[n].complete
                            THEN ReplaceBlob(before.filing_pdfs, up.id,
                                             saves[n].blob)
                            ELSE before.filing_pdfs,
            seq         |-> up.seq]

\* the BINARY collation on the texts of filing_date (digits and dashes)
CharRank(c) == IF IsDigit(c) THEN DigitValue(c) + 1 ELSE 0

RECURSIVE TextLess(_, _)
TextLess(a, b) ==
  IF b = << >> THEN FALSE
  ELSE IF a = << >> THEN TRUE
  ELSE IF a[1] = b[1] THEN TextLess(Tail(a), Tail(b))
  ELSE CharRank(a[1]) < CharRank(b[1])

\* ORDER BY f.filing_date, f.id
RowBefore(r, q) ==
  \/ TextLess(r.filing_date, q.filing_date)
  \/ (r.filing_date = q.filing_date /\ r.id < q.id)

RECURSIVE OrderBy(_)
OrderBy(S) ==
  IF S = {} THEN << >>
  ELSE LET r == CHOOSE x \in S : \A q \in S \ {x} : RowBefore(x, q)
       IN  << r >> \o OrderBy(S \ {r})

\* SELECT f.id, f.file_name, p.pdf_blob FROM filings f
\* JOIN filing_pdfs p ON f.id = p.filing_id (filing_date kept for the order)
JoinedRows ==
  {[id |-> f.id, filing_date |-> f.filing_date, file_name |-> f.file_name,
    pdf_blob |-> p.pdf_blob] :
     << f, p >> \in {x \in filings \X filing_pdfs : x[1].id = x[2].filing_id}}

\* the file name holds a path separator: path.join makes it a path into a
\* directory below the output directory
HasSlash(name) == \E k \in 1..Len(name) : name[k] = "/"

exportCommand ==
  /\ pc = "export"
  /\ exportRows' = OrderBy(JoinedRows)
  /\ exportIndex' = 1 /\ count' = 0
  /\ pc' = "export_loop"
  /\ UNCHANGED << caller, sticky, storeBefore, fnVars, files, abortCause, storeVars, cmdVars,
                  pageVars, pfrVars, envVars, runGhost, pfrGhost, saveGhost >>

\* one turn of the loop: fs.writeFileSync(path.join(output, row.file_name),
\* row.pdf_blob); count++.  writeFileSync creates no directory: it throws
\* ENOENT unless the directory of the path exists.
ExportWrite ==
  /\ pc = "export_loop" /\ exportIndex <= Len(exportRows)
  /\ \E dirExists \in BOOLEAN :
       LET row == exportRows[exportIndex]
       IN  IF HasSlash(row.file_name) /\ ~dirExists
           THEN /\ pc' = "export_failed"
                /\ UNCHANGED << exportIndex, count, files >>
           ELSE /\ files' = Append(files, [name  |-> row.file_name,
                                           bytes |-> row.pdf_blob])
                /\ count' = count + 1
                /\ exportIndex' = exportIndex + 1
                /\ pc' = "export_loop"
  /\ UNCHANGED << caller, sticky, storeBefore, fnVars, exportRows, abortCause, storeVars,
                  cmdVars, pageVars, pfrVars, envVars, runGhost, pfrGhost,
                  saveGhost >>

\* console.log(`Done! Extracted ${count} PDFs ...`)
ExportDone ==
  /\ pc = "export_loop" /\ exportIndex > Len(exportRows)
  /\ pc' = "export_done"
  /\ UNCHANGED << caller, sticky, storeBefore, fnVars, exportVars, abortCause, storeVars,
                  cmdVars, pageVars, pfrVars, envVars, runGhost, pfrGhost,
                  saveGhost >>

ExportInit ==
  /\ pc = "export" /\ caller = "export" /\ db = "open"
  /\ options = [output |-> TRUE, debug |-> FALSE]
  /\ grid = << >> /\ handled = << >>
  /\ arg = NoArg /\ ret = NoReturn /\ sticky = FALSE
  /\ \E saves \in ExportSaves :
       /\ filings = StoreAfter(saves).filings
       /\ filing_pdfs = StoreAfter(saves).filing_pdfs
       /\ sqlite_sequence = StoreAfter(saves).seq
  /\ NoRun

ExportNext == exportCommand \/ ExportWrite \/ ExportDone

ExportSpec == ExportInit /\ [][ExportNext]_vars

\* each pure function alone, applied once to arguments drawn from PureArgs
PureInit ==
  /\ pc = "apply" /\ caller = "pure" /\ db = "unset"
  /\ options = [output |-> FALSE, debug |-> FALSE]
  /\ grid = << >> /\ handled = << >>
  /\ arg \in PureArgs /\ ret = NoReturn /\ sticky = FALSE
  /\ Idle

PureNext ==
  \/ ApplyExtractFilingRecord \/ ApplyExtractFilingRecordPattern
  \/ ApplyIsValidPdf \/ ApplyExtractSessionKey
  \/ ApplyBuildDownloadUrl \/ ApplyGetPaginationInfo
  \/ ApplyConvertDateFormat

PureSpec == PureInit /\ [][PureNext]_vars

\* ------------------------------------------------------------------ properties
BlobsOf(id) == {row \in filing_pdfs : row.filing_id = id}

Pages(run) == {run[k] : k \in 1..Len(run)}

\* C1: if a step of processFilingRecord from the click through the persist
\* raised an exception, the invocation returns false and raises nothing to
\* its caller.
C1_RaisedReturnsFalse ==
  raised => result \in {"none", "false"}

\* C2: no per-row or per-document error ends the run: the run never ends
\* with an exception that came from handling a row (reading its cells,
\* parsing the record, looking up its link, the fetch pipeline).
C2_RowErrorNeverEndsRun ==
  pc = "aborted" => abortCause # "row"

\* C3: every invocation of processFilingRecord that clicked the document
\* link has issued the Escape key press by the time it is over, whatever
\* the branch.
C3_DismissBeforeReturn ==
  (clicked /\ (pc = "pfr_returned" \/ result = "threw")) => dismissed >= 1

\* an invocation that clicked, fetched a buffer that failed validation and
\* returned false
C3_Witness ==
  /\ pc = "pfr_returned" /\ clicked /\ result = "false"
  /\ branch = "invalid" /\ dismissed = 1

\* C4: the filings table holds one row per natural key, every key whose
\* save completed has its row, the blob joined to that row is the buffer
\* of the last completed save of the key, and every save of a key got the
\* same id.
C4_UpsertIdempotent ==
  /\ \A r1 \in filings, r2 \in filings :
       NaturalKey(r1) = NaturalKey(r2) => r1 = r2
  /\ \A e \in saved :
       \E row \in filings :
         /\ NaturalKey(row) = e.key
         /\ BlobsOf(row.id) = {[filing_id |-> row.id, pdf_blob |-> e.blob]}
  /\ \A a \in ids, b \in ids : a[1] = b[1] => a[2] = b[2]

\* two keys are stored and one of them was saved again with other bytes
C4_Witness ==
  /\ pc = "harness"
  /\ Cardinality(filings) = 2
  /\ \E e \in saved : e.again

\* C5: every blob in the store passed isValidPdf, and the statements of
\* savePdfToDb run in a pipeline invocation only after isValidPdf ran and
\* accepted the buffer.
C5_ValidateBeforeStore ==
  /\ caller = "run" =>
       \A row \in filing_pdfs :
         /\ row.pdf_blob.len > MinPdfLength
         /\ row.pdf_blob.head = PdfMagic
  /\ (caller = "run" /\ pc \in {"stmtFiling", "stmtPdf"}) =>
       /\ validated
       /\ buffer.len > MinPdfLength
       /\ buffer.head = PdfMagic

\* a blob is stored and a later document of the run failed validation
C5_Witness ==
  /\ filing_pdfs # {}
  /\ pc = "pfr_dismiss" /\ branch = "invalid" /\ validated

\* C6: outside a running savePdfToDb, every metadata row has exactly one
\* blob row and every blob row belongs to a metadata row.
C6_OneBlobPerFiling ==
  pc # "stmtPdf" =>
    /\ \A row \in filings : Cardinality(BlobsOf(row.id)) = 1
    /\ \A b \in filing_pdfs : \E row \in filings : row.id = b.filing_id

\* C7: a run that completes has processed every page of the grid, whatever
\* the total read at the start.
C7_EveryPageProcessed ==
  pc = "done" => \A p \in 1..Len(grid) : p \in Pages(processed)

\* C8: with the store and the browser available, the run loop ends and the
\* run reaches the final summary and browser.close().
C8_RunReachesSummary ==
  <>(pc = "done" \/ abortCause \in {"init", "search", "browser"})

\* C32: every invocation of processFilingRecord that has started ends: it
\* returns true or false (or its exception leaves it), whatever the browser
\* and the host do; no click, frame scan, fetch or dismiss waits forever.
C32_InvocationEnds ==
  (pc = "pfr_click") ~> (pc \in {"pfr_returned", "aborted"})

\* C9: the run never processes the same grid page twice.
C9_NoPageTwice ==
  \A a \in 1..Len(processed), b \in 1..Len(processed) :
    a # b => processed[a] # processed[b]

\* C10: on a grid of N pages whose summary reports N, with the browser
\* available and every advance taking effect, the run issues N-1
\* goToNextPage calls, processes pages 1..N in order once each, ends with
\* currentPage = N and handles every row once.
C10_ExactSweep ==
  ( /\ pc \in {"done", "aborted"}
    /\ abortCause \in {"none", "row"}
    /\ ~pageClosed
    /\ anomalies = 0
    /\ totalPages = Len(grid) )
  => /\ nextCalls = Len(grid) - 1
     /\ processed = [p \in 1..Len(grid) |-> p]
     /\ currentPage = Len(grid)
     /\ \A p \in 1..Len(grid) : \A r \in 1..grid[p] : handled[p][r] = 1

\* C11: a document whose viewer frame is not attached at the first scan but
\* is attached before the fifth poll is not reported as having no viewer
\* URL: absence is reported only when the frame was there and gave no URL,
\* or when no poll of the bounded polling could find it.
C11_LateFrameResolved ==
  (pc = "pfr_dismiss" /\ branch = "nourl" /\ ~pageClosed)
    => frameAfter \notin 1..(PollCount - 1)

\* ------------------------------------------------------------------ parser properties
Applied(fn) == pc = "applied" /\ arg.fn = fn

\* `!text`: the cell is null or the empty string
MissingCell(c) == c.null \/ (c.lead = << >> /\ c.core = << >> /\ c.trail = << >>)
MissingDate(d) == d.null \/ (d.lead \o Join(d.fields, d.sep) \o d.trail = << >>)

AllDigits(f) == \A k \in 1..Len(f) : IsDigit(f[k])

\* M/D/YYYY: three slash-separated fields of digits, month and day of one
\* or two digits, a year of four
WellFormedDate(d) ==
  /\ ~d.null /\ d.sep = "/" /\ Len(d.fields) = 3
  /\ \A k \in 1..3 : AllDigits(d.fields[k])
  /\ Len(d.fields[1]) \in 1..2 /\ Len(d.fields[2]) \in 1..2
  /\ Len(d.fields[3]) = 4

\* present, and not three slash-separated fields
MalformedDate(d) == ~d.null /\ (d.sep # "/" \/ Len(d.fields) # 3)

FieldNames ==
  {"formType", "filingDate", "filerName", "candidateLastName",
   "candidateFirstName", "candidateMiddleName"}

\* C12: extractFilingRecord returns null whenever the form-type text or the
\* filing-date text is null or empty, whatever the other four texts are, and
\* returns a record with all six fields when both are present and the date
\* is well formed.
C12_NullWithoutRequired ==
  Applied("extractFilingRecord") =>
    /\ (MissingCell(arg.form) \/ MissingDate(arg.date))
         => ret.value.tag = "null"
    /\ (~MissingCell(arg.form) /\ WellFormedDate(arg.date))
         => /\ ret.value.tag = "record"
            /\ DOMAIN ret.value.rec = FieldNames
            /\ Len(ret.value.rec.filingDate) = 10

\* the form type is the empty string, the date is well formed, the filer and
\* the last name are there: null is returned
C12_Witness ==
  /\ Applied("extractFilingRecord")
  /\ ~arg.form.null /\ MissingCell(arg.form)
  /\ WellFormedDate(arg.date)
  /\ ~arg.filer.null /\ ~arg.last.null
  /\ ret.value.tag = "null"

\* C13: for a filing-date text that is not three slash-separated fields and
\* a non-empty form type, extractFilingRecord returns null and does not
\* throw.
C13_MalformedDateIsNull ==
  (Applied("extractFilingRecord") /\ ~MissingCell(arg.form)
     /\ MalformedDate(arg.date))
    => ret.value.tag = "null"

TwoDigits(f) == IF Len(f) = 1 THEN << "0" >> \o f ELSE f

\* C14: a date M/D/YYYY, with or without white space around it, becomes
\* YYYY-MM-DD with month and day padded to two digits.
C14_DateNormalized ==
  (Applied("extractFilingRecord") /\ ~MissingCell(arg.form)
     /\ WellFormedDate(arg.date))
    => /\ ret.value.tag = "record"
       /\ ret.value.rec.filingDate =
            arg.date.fields[3] \o << "-" >> \o TwoDigits(arg.date.fields[1])
              \o << "-" >> \o TwoDigits(arg.date.fields[2])

\* " 7/29/2025\n" gave 2025-07-29
C14_Witness ==
  /\ Applied("extractFilingRecord")
  /\ arg.date.lead # << >> /\ arg.date.trail # << >>
  /\ ret.value.tag = "record"
  /\ ret.value.rec.filingDate =
       << "2", "0", "2", "5", "-", "0", "7", "-", "2", "9" >>

C16_ValidIffLongAndSigned ==
  Applied("isValidPdf") =>
    (ret.value <=> (arg.buffer.len >= 101
                      /\ arg.buffer.head = << 37, 80, 68, 70 >>))

\* a buffer of 100 bytes with the signature was refused
C16_Witness ==
  /\ Applied("isValidPdf")
  /\ arg.buffer.len = 100 /\ arg.buffer.head = << 37, 80, 68, 70 >>
  /\ ret.value = FALSE

\* ------------------------------------------------------------------ credential properties
LowerHex(c) ==
  c \in {"0", "1", "2", "3", "4", "5", "6", "7", "8", "9", "a", "b", "c",
         "d", "e", "f"}

\* the reference is 'PdfHandler.axd', characters other than '?', '?key=' and
\* at least 32 characters of 0-9a-f
ConformingUrl(a) ==
  /\ a.handler =
       << "P", "d", "f", "H", "a", "n", "d", "l", "e", "r", ".", "a", "x", "d" >>
  /\ \A k \in 1..Len(a.mid) : a.mid[k] # "?"
  /\ a.param = << "?", "k", "e", "y", "=" >>
  /\ Len(a.keyText) >= 32
  /\ \A k \in 1..32 : LowerHex(a.keyText[k])

\* C17: extractSessionKey returns the first 32 characters of the key of a
\* conforming reference, and null for every other reference.
C17_KeyOfConformingUrl ==
  Applied("extractSessionKey") =>
    ret.value = IF ConformingUrl(arg) THEN Text(SubSeq(arg.keyText, 1, 32))
                ELSE Null

\* a key text of 34 hexadecimal characters gave its first 32
C17_Witness ==
  /\ Applied("extractSessionKey")
  /\ Len(arg.keyText) = 34 /\ ConformingUrl(arg)
  /\ ~ret.value.null /\ Len(ret.value.s) = 32

\* the URL the unit test expects for the key d37d...0d1f
ExpectedUrlA ==
  << "h", "t", "t", "p", "s", ":", "/", "/", "w", "w", "w", ".", "s", "o",
     "u", "t", "h", "t", "e", "c", "h", "h", "o", "s", "t", "i", "n", "g",
     ".", "c", "o", "m", "/", "W", "h", "i", "t", "t", "i", "e", "r", "C",
     "i", "t", "y", "/", "C", "a", "m", "p", "a", "i", "g", "n", "D", "o",
     "c", "s", "W", "e", "b", "R", "e", "t", "r", "i", "e", "v", "a", "l",
     "/", "P", "d", "f", "H", "a", "n", "d", "l", "e", "r", ".", "a", "x",
     "d", "?", "k", "e", "y", "=", "d", "3", "7", "d", "2", "7", "8", "c",
     "f", "1", "1", "4", "4", "8", "e", "1", "a", "f", "a", "2", "0", "2",
     "8", "e", "4", "3", "7", "6", "0", "d", "1", "f", "P", "d", "f", "D",
     "o", "w", "n", "l", "o", "a", "d", "S", "e", "s", "s", "i", "o", "n",
     "K", "e", "y", "&", "d", "o", "w", "n", "l", "o", "a", "d", "=", "T",
     "r", "u", "e", "&", "f", "i", "l", "e", "N", "a", "m", "e", "=", "F",
     "o", "r", "m" >>

SessionKeyMarker ==
  << "P", "d", "f", "D", "o", "w", "n", "l", "o", "a", "d", "S", "e", "s",
     "s", "i", "o", "n", "K", "e", "y" >>
DownloadQuery ==
  << "&", "d", "o", "w", "n", "l", "o", "a", "d", "=", "T", "r", "u", "e",
     "&", "f", "i", "l", "e", "N", "a", "m", "e", "=", "F", "o", "r", "m" >>

\* C18: buildDownloadUrl returns the handler URL up to 'key=', the key, the
\* marker 'PdfDownloadSessionKey' and '&download=True&fileName=Form', and
\* nothing but its result depends on it.
C18_DownloadUrlOfKey ==
  Applied("buildDownloadUrl") =>
    /\ ret.value =
         SubSeq(ExpectedUrlA, 1, 90) \o arg.key \o SessionKeyMarker
           \o DownloadQuery
    /\ arg.key = KeyA => ret.value = ExpectedUrlA

\* the URL of the unit test was built
C18_Witness ==
  /\ Applied("buildDownloadUrl")
  /\ arg.key = KeyA /\ Len(ret.value) = 171

\* ------------------------------------------------------------------ pagination properties
\* the read gave the summary text, alone or inside a longer text
SummaryRead(a) == a.kind \in {"summary", "embedded"}

\* C19: right after getPaginationInfo, the run holds the three numbers of a
\* summary 'Page X of Y (Z items)'; when the element is missing, the read
\* times out or the text is empty or does not match, it holds no pagination
\* info, no exception has ended the run and the run counts one page.
C19_PagerParsedOrSinglePage ==
  (pc = "page" /\ processed = << >>) =>
    IF SummaryRead(pagerRead)
    THEN paginationInfo =
           [found |-> TRUE, currentPage |-> pagerRead.x,
            totalPages |-> pagerRead.y, totalItems |-> pagerRead.z]
    ELSE /\ ~paginationInfo.found
         /\ abortCause = "none"
         /\ totalPages = 1

\* the summary read 'No data to display' on a grid of two pages: no
\* pagination info, and the run goes on with a total of one page
C19_Witness ==
  /\ pc = "page" /\ processed = << >>
  /\ pagerRead.kind = "nodata" /\ Len(grid) = 2
  /\ ~paginationInfo.found /\ totalPages = 1 /\ currentPage = 1

\* C20: goToNextPage returns false without a click when there is no enabled
\* Next control; when there is one it clicks it once and returns true, and
\* the grid then shows the next page while the run's total is unchanged.
C20_AdvanceOnce ==
  [][(pc = "next" /\ ~pageClosed' /\ abortCause' # "navigation") =>
       IF gridPage >= Len(grid)
       THEN /\ pc' = "summary"
            /\ nextClicks' = nextClicks /\ gridPage' = gridPage
       ELSE /\ pc' = "page"
            /\ nextClicks' = nextClicks + 1
            /\ gridPage' = gridPage + 1
            /\ totalPages' = totalPages]_vars

\* C21: once the Next button has been clicked, a network-idle signal that
\* never fires does not fail the advance: no run ends because the wait for
\* network idle timed out.
C21_IdleTimeoutNotFatal == abortCause # "networkidle"

\* C28: when the store or the browser fails to initialize, the run does not
\* start: the command has ended, no search was made, no page was processed,
\* no row was clicked, no advance was asked for and the store holds nothing.
C28_InitFailureStopsRun ==
  abortCause = "init" =>
    /\ pc = "aborted"
    /\ gridPage = 0 /\ processed = << >> /\ nextCalls = 0
    /\ ~clicked /\ ~viewOpen
    /\ filings = {} /\ filing_pdfs = {}

\* the store was opened and the browser failed to launch
C28_Witness ==
  /\ abortCause = "init" /\ db = "open" /\ pc = "aborted"
  /\ gridPage = 0 /\ processed = << >>

\* C23: in a dry run (no store) nothing is written to a store: no statement
\* of savePdfToDb is reached and both tables stay empty; the row is still
\* clicked, fetched and validated, and a validated document makes
\* processFilingRecord return true.
C23_DryRunWritesNothing ==
  db = "null" =>
    /\ filings = {} /\ filing_pdfs = {} /\ sqlite_sequence = 0
    /\ saved = {} /\ ids = {}
    /\ pc \notin {"stmtFiling", "stmtPdf"}
    /\ (pc = "pfr_returned" /\ validated /\ buffer.len > MinPdfLength
          /\ buffer.head = PdfMagic) => result = "true"

\* a dry run clicked a row, fetched a valid document and returned true
C23_Witness ==
  /\ db = "null" /\ pc = "pfr_returned" /\ clicked /\ validated
  /\ buffer = PdfA /\ result = "true" /\ filings = {}

C30_PipelineOrderAndResult ==
  /\ pc = "pfr_fetch" =>
       clicked /\ ~pdfUrl.null /\ Len(key) = KeyLength /\ ~validated
  /\ (caller = "run" /\ pc \in {"stmtFiling", "stmtPdf"}) =>
       /\ validated /\ dismissed = 0
       /\ buffer.len > MinPdfLength /\ buffer.head = PdfMagic
  /\ result # "none" =>
       (result = "true" <=> (validated /\ branch = "ok"))

\* C29: the pattern variant of extractFilingRecord gives as form type the
\* leading digits of the trimmed text, with the dash and the upper-case
\* letter that follow them if any, and 'unknown' when the trimmed text does
\* not start with a digit; with its three cells present and a date M/D/YYYY
\* it returns a record whatever the form-type text is.
C29_FormTypeByPattern ==
  Applied("extractFilingRecordPattern") =>
    /\ ret.value.tag = "record" =>
         ret.value.rec.formType =
           IF arg.form.digits = << >> THEN << "u", "n", "k", "n", "o", "w", "n" >>
           ELSE arg.form.digits \o arg.form.suffix
    /\ (/\ ~arg.form.null
        /\ arg.form.lead \o arg.form.digits \o arg.form.rest
              \o arg.form.trail # << >>
        /\ ~MissingCell(arg.last) /\ WellFormedDate(arg.date))
         => ret.value.tag = "record"

\* '410-AB' gave 410-A
C29_Witness ==
  /\ Applied("extractFilingRecordPattern") /\ ret.value.tag = "record"
  /\ arg.form.suffix = << "-", "A" >> /\ arg.form.rest = << "B" >>
  /\ ret.value.rec.formType = << "4", "1", "0", "-", "A" >>

\* C27: a row that extractFilingRecord cannot parse is skipped (no click, the
\* loop goes to the next row) and counted: the step that skips it changes a
\* variable of the program other than the loop index, and leaves the count
\* of successes alone.
C27_UnparsableSkippedAndCounted ==
  [][(pc = "row" /\ lastSkip' = "unparsable" /\ i' = i + 1) =>
       /\ pc' = "row" /\ ~clicked' /\ pageDownloadCount' = pageDownloadCount
       /\ << rows, cmdVars, pfrVars, storeVars >>'
            # << rows, cmdVars, pfrVars, storeVars >>]_vars

\* C22: the URL whose key goes into the fetch of a row was read from the
\* view opened by that row's click, never from the frame that the view of
\* an earlier row left attached: no key serves the fetch of two rows.
C22_KeyFromOwnView ==
  pc = "pfr_fetch" => (staleFrame.null \/ pdfUrl # staleFrame)

\* C25: the run is sequential.  At most one document view is open: while
\* the view of the row in hand is open no frame of an earlier view is
\* attached.  A fetch is pending only inside that one view; a row is clicked
\* only when the pipeline of the previous row has returned; goToNextPage is
\* called only when every row of the page shown has been handled.
C25_Sequential ==
  /\ viewOpen => staleFrame.null
  /\ pc = "pfr_fetch" => viewOpen
  /\ pc = "pfr_click" => (~viewOpen /\ ~clicked /\ dismissed = 0
                            /\ result = "none")
  /\ pc = "next" =>
       /\ i > rows /\ ~viewOpen
       /\ \A r \in 1..grid[gridPage] : handled[gridPage][r] >= 1

\* C26: the export writes every blob that is joined to a metadata row, each
\* to the file named by the row's file_name, in the order of filing date
\* and then id, and reports the number of files written; it does not stop
\* before the last row.
C26_ExportWritesAll ==
  /\ pc # "export_failed"
  /\ pc \in {"export_loop", "export_done"} =>
       /\ count = Len(files) /\ count = exportIndex - 1
       /\ \A k \in 1..count :
            /\ files[k].name = exportRows[k].file_name
            /\ files[k].bytes = exportRows[k].pdf_blob
  /\ pc = "export_done" =>
       /\ count = Cardinality({p \in filing_pdfs :
                                \E f \in filings : f.id = p.filing_id})
       /\ \A f \in filings, p \in filing_pdfs :
            f.id = p.filing_id =>
              \E k \in 1..count : /\ files[k].name = f.file_name
                                   /\ files[k].bytes = p.pdf_blob
       /\ \A k \in 1..count, m \in 1..count :
            k < m =>
              \/ TextLess(exportRows[k].filing_date, exportRows[m].filing_date)
              \/ /\ exportRows[k].filing_date = exportRows[m].filing_date
                 /\ exportRows[k].id < exportRows[m].id

\* C35: every pagination state that getPaginationInfo returns has a current
\* page, a total of pages and a total of items that are all positive, and a
\* current page not above the total of pages.
C35_PaginationStateValid ==
  (Applied("getPaginationInfo") /\ ret.value.found) =>
    /\ ret.value.currentPage >= 1
    /\ ret.value.totalPages >= 1
    /\ ret.value.totalItems >= 1
    /\ ret.value.currentPage <= ret.value.totalPages

\* C39: every record that extractFilingRecord returns has a form type that
\* is not empty and a filing date made of four digits, a dash, two digits,
\* a dash and two digits.
C39_RecordWellFormed ==
  (Applied("extractFilingRecord") /\ ret.value.tag = "record") =>
    /\ ret.value.rec.formType # << >>
    /\ Len(ret.value.rec.filingDate) = 10
    /\ \A k \in 1..Len(ret.value.rec.filingDate) :
         IF k \in {5, 8} THEN ret.value.rec.filingDate[k] = "-"
         ELSE IsDigit(ret.value.rec.filingDate[k])

\* C36: convertDateFormat turns YYYY-MM-DD into MM/DD/YYYY with the same
\* three fields, and the date normalization of extractFilingRecord applied
\* to the converted text gives the date back.
C36_DateRoundTrip ==
  Applied("convertDateFormat") =>
    /\ ret.value.converted =
         arg.month \o << "/" >> \o arg.day \o << "/" >> \o arg.year
    /\ ret.value.parsed.tag = "record"
    /\ ret.value.parsed.rec.filingDate =
         arg.year \o << "-" >> \o arg.month \o << "-" >> \o arg.day

\* 1999-06-30 became 06/30/1999 and was read back as 1999-06-30
C36_Witness ==
  /\ Applied("convertDateFormat")
  /\ arg.year = << "1", "9", "9", "9" >> /\ arg.month = << "0", "6" >>
  /\ arg.day = << "3", "0" >>
  /\ ret.value.converted =
       << "0", "6", "/", "3", "0", "/", "1", "9", "9", "9" >>
  /\ ret.value.parsed.rec.filingDate =
       << "1", "9", "9", "9", "-", "0", "6", "-", "3", "0" >>

\* C38: the export loses no document: when it is done the output directory
\* holds, for every stored filing with a blob, a file named by the filing
\* whose bytes are that filing's blob (the last write to that name).
C38_ExportLosesNothing ==
  pc = "export_done" =>
    \A f \in filings, p \in filing_pdfs :
      f.id = p.filing_id =>
        \E k \in 1..Len(files) :
          /\ files[k].name = f.file_name
          /\ files[k].bytes = p.pdf_blob
          /\ \A m \in (k + 1)..Len(files) : files[m].name # f.file_name

\* C37: once savePdfToDb has completed for a record, the metadata row of the
\* record's natural key holds every field of that record: the five key
\* columns, candidate_middle_name and file_name.
C37_RowEqualsRecord ==
  \A e \in saved :
    \E row \in filings :
      /\ NaturalKey(row) = RecordKey(e.rec)
      /\ row.candidate_middle_name = e.rec.candidateMiddleName
      /\ row.file_name = FileName(e.rec)

\* C34: the total that a completed run reports is the number of documents
\* stored: in persist mode it equals the number of documents in the store,
\* the store having been empty at the start; while a page is processed its
\* count never exceeds the rows already handled.
C34_TotalEqualsStored ==
  /\ (pc = "done" /\ db = "open") =>
       downloadCount = Cardinality(filing_pdfs)
  /\ (caller = "run" /\ pc = "row") => pageDownloadCount <= i - 1

\* C33: processCurrentPage takes the rows of the loaded page in order, one
\* at a time: a row that parses to a record and has a document link gets one
\* invocation of processFilingRecord, a row that is unparsable or has no
\* link gets none and leaves the success count alone, and the page is left
\* only after its last row.
C33_PipelineOncePerLinkedRow ==
  [][/\ (pc = "row" /\ i <= rows /\ ~pageClosed') =>
          \/ /\ pc' = "pfr_click" /\ i' = i
             /\ lastSkip' = "none" /\ record' # NoRecord
          \/ /\ pc' = "row" /\ i' = i + 1
             /\ lastSkip' \in {"unparsable", "nolink"}
             /\ pageDownloadCount' = pageDownloadCount /\ ~clicked'
     /\ pc = "pfr_returned" => (pc' = "row" /\ i' = i + 1)
     /\ (pc = "row" /\ pc' \in {"next", "summary"}) => i = rows + 1]_vars

\* C31: an invocation of processFilingRecord that returns false leaves both
\* tables as they were when it was called, and while a row is handled the
\* metadata row and the blob of every filing with another natural key that
\* was in the store before are still there, unchanged.
C31_SkippedLeavesStore ==
  /\ (pc = "pfr_returned" /\ result = "false") =>
       /\ filings = storeBefore.filings
       /\ filing_pdfs = storeBefore.filing_pdfs
  /\ (caller = "run" /\ record # NoRecord) =>
       \A row \in storeBefore.filings :
         NaturalKey(row) # RecordKey(record) =>
           /\ row \in filings
           /\ \A b \in storeBefore.filing_pdfs :
                b.filing_id = row.id => b \in filing_pdfs

====
